---- MODULE Spec2Model ----
(***************************************************************************)
(* A model of the HPP lattice-gas cellular automaton of the lgca crate:    *)
(* the cell encoding, the Grid with its sentinel reads, the streaming and  *)
(* collision step, source injection, the block analysis and the driver's   *)
(* tick.  Cells are u8 values; grids are flat row-major sequences.         *)
(***************************************************************************)
EXTENDS Integers, Sequences, FiniteSets

VARIABLES
    config,      \* the Config value of the run
    grid_a,      \* the driver's current buffer
    grid_b,      \* the driver's other buffer
    grid_0,      \* history: the grid main built, before the first tick
    sources,     \* the configured Source list
    i,           \* number of ticks done (the loop index of main)
    image,       \* what the last save_grid_as_image handed to the encoder
    ndraws,      \* cells filled so far by a random (0 < p < 1) draw
    pc,          \* "run", "panicked", or the phase of a unit call
    cell_value,  \* argument of a direct resolve_collisions call
    result,      \* return value of the last direct call (NoResult before it)
    call,        \* the last direct call of a Grid method and its arguments
    written      \* history: the value last passed to set, per coordinate

vars ==
    <<config, grid_a, grid_b, grid_0, sources, i, image, ndraws, pc, cell_value, result, call,
      written>>

-----------------------------------------------------------------------------
(* Bounds of the model.                                                    *)

MaxW == 3
MaxH == 3
MaxParticles == 1
MaxTicks == 3
MaxDraws == 2
MaxSrcSide == 1
MaxBlocks == 2
MaxSets == 2

-----------------------------------------------------------------------------
(* lgca::cell -- the flag constants.                                       *)

FULL == 15
UP == 8
RIGHT == 4
DOWN == 2
LEFT == 1
EMPTY == 0
BOUNDARY == 16

U8 == 0 .. 255
NoResult == 255 + 1

(* u8 bit operations, bit by bit.                                          *)
Bit(v, k) == (v \div (2 ^ k)) % 2

(* a & b and a | b, tabulated once over the u8 pairs the cells use (both  *)
(* below 32) and computed bit by bit for the rest.                         *)
BitAndBits(a, b) ==
    Bit(a, 0) * Bit(b, 0) + 2 * Bit(a, 1) * Bit(b, 1)
    + 4 * Bit(a, 2) * Bit(b, 2) + 8 * Bit(a, 3) * Bit(b, 3)
    + 16 * Bit(a, 4) * Bit(b, 4) + 32 * Bit(a, 5) * Bit(b, 5)
    + 64 * Bit(a, 6) * Bit(b, 6) + 128 * Bit(a, 7) * Bit(b, 7)

AndTable == [a \in 0 .. 31 |-> [b \in 0 .. 31 |-> BitAndBits(a, b)]]

BitAnd(a, b) == IF a < 32 /\ b < 32 THEN AndTable[a][b] ELSE BitAndBits(a, b)

BitOr(a, b) == a + b - BitAnd(a, b)

Shl(v, k) == (v * (2 ^ k)) % 256

Shr(v, k) == v \div (2 ^ k)

(* Number of directional flags of a cell value (count_ones of its low      *)
(* four bits).                                                             *)
Particles(v) == Bit(v, 0) + Bit(v, 1) + Bit(v, 2) + Bit(v, 3)

-----------------------------------------------------------------------------
(* resolve_collisions: the head-on swap of a fluid cell, the bounce-back   *)
(* of a wall cell.                                                         *)

(* Variants with one slip each, used to show that the properties below   *)
(* depend on the table: a head-on pair written with the wrong bits, a      *)
(* swap that drops a particle, a wall that shifts by one bit.              *)
resolve_collisions_wrongpair(v) ==
    IF BitAnd(v, BOUNDARY) = 0
    THEN CASE v = 6 -> 9
           [] v = 9 -> 6
           [] OTHER -> v
    ELSE BitOr(BitOr(BitOr(BitOr(Shr(BitAnd(v, UP), 2), Shr(BitAnd(v, RIGHT), 2)),
                           Shl(BitAnd(v, DOWN), 2)), Shl(BitAnd(v, LEFT), 2)),
               BOUNDARY)

resolve_collisions_dropone(v) ==
    IF BitAnd(v, BOUNDARY) = 0
    THEN CASE v = 5 -> 8
           [] v = 10 -> 5
           [] OTHER -> v
    ELSE BitOr(BitOr(BitOr(BitOr(Shr(BitAnd(v, UP), 2), Shr(BitAnd(v, RIGHT), 2)),
                           Shl(BitAnd(v, DOWN), 2)), Shl(BitAnd(v, LEFT), 2)),
               BOUNDARY)

resolve_collisions_noreflectx(v) ==
    IF BitAnd(v, BOUNDARY) = 0
    THEN CASE v = 5 -> 10
           [] v = 10 -> 5
           [] OTHER -> v
    ELSE BitOr(BitOr(BitOr(BitOr(Shr(BitAnd(v, UP), 2), BitAnd(v, RIGHT)),
                           Shl(BitAnd(v, DOWN), 2)), BitAnd(v, LEFT)),
               BOUNDARY)

resolve_collisions_rotating(v) ==
    IF BitAnd(v, BOUNDARY) = 0
    THEN CASE v = 5 -> 10
           [] v = 10 -> 5
           [] OTHER -> v
    ELSE BitOr(BitOr(BitOr(BitOr(Shr(BitAnd(v, UP), 1), Shr(BitAnd(v, RIGHT), 1)),
                           Shr(BitAnd(v, DOWN), 1)), Shl(BitAnd(v, LEFT), 3)),
               BOUNDARY)

resolve_collisions_absorbing(v) ==
    IF BitAnd(v, BOUNDARY) = 0
    THEN CASE v = 5 -> 10
           [] v = 10 -> 5
           [] OTHER -> v
    ELSE BOUNDARY

resolve_collisions(v) ==
    IF BitAnd(v, BOUNDARY) = 0
    THEN CASE v = 5 -> 10
           [] v = 10 -> 5
           [] OTHER -> v
    ELSE LET up == BitAnd(v, UP)
             right == BitAnd(v, RIGHT)
             down == BitAnd(v, DOWN)
             left == BitAnd(v, LEFT)
         IN  BitOr(BitOr(BitOr(BitOr(Shr(up, 2), Shr(right, 2)), Shl(down, 2)),
                         Shl(left, 2)),
                   BOUNDARY)

-----------------------------------------------------------------------------
(* Grid: a flat row-major vector of cells with its width and height.  Cell *)
(* (x, y) is stored at index y*width + x (here + 1: sequences start at 1). *)

Grid_new(width, height) ==
    [grid |-> [k \in 1 .. width * height |-> EMPTY], width |-> width, height |-> height]

InRange(g, x, y) == (x >= 0) /\ (x < g.width) /\ (y >= 0) /\ (y < g.height)

Index(g, x, y) == y * g.width + x + 1

get_wrapping(g, x, y) ==
    IF Index(g, x, y) \in 1 .. Len(g.grid) THEN g.grid[Index(g, x, y)] ELSE BOUNDARY

get(g, x, y) ==
    IF (x < 0) \/ (x >= g.width) \/ (y < 0) \/ (y >= g.height)
    THEN BOUNDARY
    ELSE g.grid[Index(g, x, y)]

(* set: the assertion is InRange; the callers below test it before the     *)
(* write, so set itself is only applied to an in-range coordinate.         *)
set(g, x, y, value) == [g EXCEPT !.grid[Index(g, x, y)] = value]

set_asserted_wrapping(g, x, y, value) ==
    IF Index(g, x, y) \in 1 .. Len(g.grid)
    THEN [g |-> set(g, x, y, value), ok |-> TRUE]
    ELSE [g |-> g, ok |-> FALSE]

(* set as a call of its own: the assertion, then the write.  ok is FALSE   *)
(* when the assertion failed, and the grid is then as it was.              *)
set_asserted(g, x, y, value) ==
    IF ~InRange(g, x, y)
    THEN [g |-> g, ok |-> FALSE]
    ELSE [g |-> set(g, x, y, value), ok |-> TRUE]

(* The cells of a rectangle in the order of the loops of fill_boundary and *)
(* fill_region: y outermost, x innermost.                                  *)
RectCells(x_min, y_min, width, height) ==
    [k \in 1 .. width * height |->
        <<x_min + ((k - 1) % width), y_min + ((k - 1) \div width)>>]

(* A run of set calls, stopped by the first failed assertion.  The result  *)
(* is the grid as written so far and whether every assertion held.         *)
RECURSIVE SetAll(_, _, _)
SetAll(g, cells, values) ==
    IF cells = <<>>
    THEN [g |-> g, ok |-> TRUE]
    ELSE IF ~InRange(g, Head(cells)[1], Head(cells)[2])
         THEN [g |-> g, ok |-> FALSE]
         ELSE SetAll(set(g, Head(cells)[1], Head(cells)[2], Head(values)),
                     Tail(cells), Tail(values))

fill_boundary(g, x_min, y_min, width, height) ==
    SetAll(g, RectCells(x_min, y_min, width, height),
           [k \in 1 .. width * height |-> BOUNDARY])

(* gen_bool(p): the outcomes the generator can return.  A probability is a *)
(* percentage here: 0 never, 100 always, anything between either.          *)
GenBool(p) == IF p = 0 THEN {0} ELSE IF p = 100 THEN {1} ELSE {0, 1}

(* The four draws n, s, e, w of one cell of fill_region.                   *)
CellDraws(p) == GenBool(p) \X GenBool(p) \X GenBool(p) \X GenBool(p)

RegionDraws(width, height, p) == [1 .. width * height -> CellDraws(p)]

RegionValue(d) == BitOr(BitOr(BitOr(Shl(d[1], 3), Shl(d[2], 2)), Shl(d[3], 1)), d[4])

fill_region_keepboundary(g, x_min, y_min, width, height, draws) ==
    SetAll(g, RectCells(x_min, y_min, width, height),
           [k \in 1 .. width * height |->
                BitOr(RegionValue(draws[k]),
                      BitAnd(get(g, RectCells(x_min, y_min, width, height)[k][1],
                                 RectCells(x_min, y_min, width, height)[k][2]),
                             BOUNDARY))])

(* fill_region with the generator's outcomes given as draws, one 4-tuple   *)
(* per cell of the rectangle in loop order.                                *)
fill_region(g, x_min, y_min, width, height, draws) ==
    SetAll(g, RectCells(x_min, y_min, width, height),
           [k \in 1 .. width * height |-> RegionValue(draws[k])])

set_boundary_at_edge_open(g, cfg) ==
    LET r1 == fill_boundary(g, 0, 0, 1, cfg.height)
        r2 == IF r1.ok THEN fill_boundary(r1.g, 0, 0, cfg.width, 1) ELSE r1
        r3 == IF r2.ok THEN fill_boundary(r2.g, 0, cfg.height - 1, cfg.width - 1, 1) ELSE r2
    IN  r3

set_boundary_at_edge(g, cfg) ==
    LET r1 == fill_boundary(g, 0, 0, 1, cfg.height)
        r2 == IF r1.ok THEN fill_boundary(r1.g, 0, 0, cfg.width, 1) ELSE r1
        r3 == IF r2.ok THEN fill_boundary(r2.g, 0, cfg.height - 1, cfg.width, 1) ELSE r2
        r4 == IF r3.ok THEN fill_boundary(r3.g, cfg.width - 1, 0, 1, cfg.height) ELSE r3
    IN  r4

-----------------------------------------------------------------------------
(* propagate_grid: streaming as a gather from the four neighbours, the     *)
(* cell's own boundary flag, then the collision.  grid and next_grid have  *)
(* the same dimensions (both are made from the one Config), so every set   *)
(* is in range and each cell of next_grid is written exactly once.         *)

Streamed_mirrored(grid, x, y) ==
    LET up == BitAnd(get(grid, x, y + 1), DOWN)
        right == BitAnd(get(grid, x - 1, y), LEFT)
        down == BitAnd(get(grid, x, y - 1), UP)
        left == BitAnd(get(grid, x + 1, y), RIGHT)
    IN  BitOr(BitOr(BitOr(BitOr(up, right), down), left),
              BitAnd(get(grid, x, y), BOUNDARY))

Streamed_noboundary(grid, x, y) ==
    LET up == BitAnd(get(grid, x, y + 1), DOWN)
        right == BitAnd(get(grid, x + 1, y), LEFT)
        down == BitAnd(get(grid, x, y - 1), UP)
        left == BitAnd(get(grid, x - 1, y), RIGHT)
    IN  BitOr(BitOr(BitOr(up, right), down), left)

Streamed(grid, x, y) ==
    LET up == BitAnd(get(grid, x, y + 1), DOWN)
        right == BitAnd(get(grid, x + 1, y), LEFT)
        down == BitAnd(get(grid, x, y - 1), UP)
        left == BitAnd(get(grid, x - 1, y), RIGHT)
    IN  BitOr(BitOr(BitOr(BitOr(up, right), down), left),
              BitAnd(get(grid, x, y), BOUNDARY))

CellStep_inplace(grid, next_grid, x, y) ==
    set(next_grid, x, y, resolve_collisions(Streamed(next_grid, x, y)))

(* The body of the loops for one (x, y).                                   *)
CellStep(grid, next_grid, x, y) ==
    set(next_grid, x, y, resolve_collisions(Streamed(grid, x, y)))

propagate_grid_sparse(grid, next_grid) ==
    [next_grid EXCEPT !.grid =
        [k \in 1 .. grid.width * grid.height |->
            LET next_state == resolve_collisions(Streamed(grid, (k - 1) % grid.width,
                                                          (k - 1) \div grid.width))
            IN  IF next_state = EMPTY THEN next_grid.grid[k] ELSE next_state]]

propagate_grid(grid, next_grid) ==
    [next_grid EXCEPT !.grid =
        [k \in 1 .. grid.width * grid.height |->
            resolve_collisions(Streamed(grid, (k - 1) % grid.width,
                                        (k - 1) \div grid.width))]]

-----------------------------------------------------------------------------
(* Block::new: the five counters of a block_size x block_size tile.  The   *)
(* loop shifts the cell right once per counter, so counter[0] counts bit 0 *)
(* of the cells, counter[1] bit 1, ... counter[4] bit 4; the fields are    *)
(* then filled up, right, down, left, boundary from counter[0..4].         *)

(* The cells of block (x, y) in loop order: cell_x outermost.               *)
BlockCells(x, y, b) ==
    [k \in 1 .. b * b |-> <<b * x + ((k - 1) \div b), b * y + ((k - 1) % b)>>]

(* counter after the cells k .. Len(cells) have been added to it.          *)
RECURSIVE Count(_, _, _, _)
Count(grid, cells, k, counter) ==
    IF k > Len(cells)
    THEN counter
    ELSE LET cell_in_block == get(grid, cells[k][1], cells[k][2])
         IN  Count(grid, cells, k + 1,
                   [n \in 0 .. 4 |-> counter[n] + Bit(cell_in_block, n)])

Block_new(x, y, block_size, grid) ==
    LET counter == Count(grid, BlockCells(x, y, block_size), 1, [n \in 0 .. 4 |-> 0])
    IN  [up |-> counter[0],
         right |-> counter[1],
         down |-> counter[2],
         left |-> counter[3],
         boundary |-> counter[4],
         x |-> x, y |-> y, block_size |-> block_size]

total_particles(block) == block.up + block.right + block.down + block.left

(* RGB8 as the three bytes of as_array.                                    *)
RGB8_new(red, green, blue) == <<red, green, blue>>

RGB8_BOUNDARY == RGB8_new(0, 0, 0)

(* usize as u8: the low eight bits.                                        *)
AsU8(n) == n % 256

block_colour_density_bw_noboundary(block_x, block_y, grid, cfg) ==
    LET block == Block_new(block_x, block_y, cfg.downscale, grid)
        val == AsU8((63 * total_particles(block)) \div (cfg.downscale * cfg.downscale))
    IN  RGB8_new(val, val, val)

block_colour_density_bw_rounded(block_x, block_y, grid, cfg) ==
    LET block == Block_new(block_x, block_y, cfg.downscale, grid)
        bb == cfg.downscale * cfg.downscale
    IN  IF block.boundary > 0
        THEN RGB8_BOUNDARY
        ELSE LET val == AsU8((2 * 63 * total_particles(block) + bb) \div (2 * bb))
             IN  RGB8_new(val, val, val)

block_colour_density_bw(block_x, block_y, grid, cfg) ==
    LET block == Block_new(block_x, block_y, cfg.downscale, grid)
    IN  IF block.boundary > 0
        THEN RGB8_BOUNDARY
        ELSE LET val == AsU8((63 * total_particles(block))
                             \div (cfg.downscale * cfg.downscale))
             IN  RGB8_new(val, val, val)

-----------------------------------------------------------------------------
(* The velocity colouring.  f64 values are modelled in fixed point with    *)
(* Scale units to 1.0 (angles in thousandths of a degree), every step      *)
(* rounded down; atan is a polynomial within a tenth of a degree.  The     *)
(* channels this yields are those of the f64 computation up to that        *)
(* precision.                                                              *)

Scale == 1000

Abs(n) == IF n < 0 THEN -n ELSE n

(* The largest r in lo .. hi - 1 with r^k <= n, given lo^k <= n < hi^k.    *)
RECURSIVE FloorRoot(_, _, _, _)
FloorRoot(lo, hi, n, k) ==
    IF hi - lo <= 1
    THEN lo
    ELSE LET mid == (lo + hi) \div 2
         IN  IF mid ^ k <= n THEN FloorRoot(mid, hi, n, k) ELSE FloorRoot(lo, mid, n, k)

Sqrt(n) == FloorRoot(0, 46341, n, 2)

Cbrt(n) == FloorRoot(0, 1291, n, 3)

(* powf(sqrt(x*x + y*y) / sqrt(2), 1/3) for x = dx/bb and y = dy/bb.       *)
Speed(dx, dy, bb) ==
    Cbrt(Sqrt(((dx * dx + dy * dy) * Scale * Scale) \div (2 * bb * bb)) * Scale * Scale)

(* atan(q / Scale) in thousandths of a degree, 0 <= q <= Scale.            *)
AtanUnit(q) ==
    LET t == (q * (Scale - q)) \div Scale
    IN  45 * q + (t * (14020 + (3799 * q) \div Scale)) \div Scale

(* atan2(x, y), plus 2 pi when negative, in thousandths of a degree.       *)
Angle(dx, dy) ==
    LET a == Abs(dx)
        c == Abs(dy)
        phi == IF a = 0 THEN 0
               ELSE IF a <= c THEN AtanUnit((a * Scale) \div c)
               ELSE 90 * Scale - AtanUnit((c * Scale) \div a)
    IN  IF dy >= 0
        THEN IF dx >= 0 THEN phi ELSE 360 * Scale - phi
        ELSE IF dx >= 0 THEN 180 * Scale - phi ELSE 180 * Scale + phi

(* f64 as u8: truncated toward zero and saturated.                         *)
F64AsU8(n) == IF n < 0 THEN 0 ELSE IF n > 255 THEN 255 ELSE n

from_hsvf64(hue, saturation, value) ==
    LET chroma == (saturation * value) \div Scale
        h_prime == hue \div 60
        x == (chroma * (Scale - Abs((h_prime % (2 * Scale)) - Scale))) \div Scale
        rgb == IF h_prime < Scale THEN <<chroma, x, 0>>
               ELSE IF h_prime < 2 * Scale THEN <<x, chroma, 0>>
               ELSE IF h_prime < 3 * Scale THEN <<0, chroma, x>>
               ELSE IF h_prime < 4 * Scale THEN <<0, x, chroma>>
               ELSE IF h_prime < 5 * Scale THEN <<x, 0, chroma>>
               ELSE IF h_prime < 6 * Scale THEN <<chroma, 0, x>>
               ELSE <<0, 0, 0>>
        m == value - chroma
    IN  RGB8_new(F64AsU8(((rgb[1] + m) * 255) \div Scale),
                 F64AsU8(((rgb[2] + m) * 255) \div Scale),
                 F64AsU8(((rgb[3] + m) * 255) \div Scale))

block_colour_velocity_rgb(block_x, block_y, grid, cfg) ==
    LET block == Block_new(block_x, block_y, cfg.downscale, grid)
    IN  IF block.boundary > 0
        THEN RGB8_BOUNDARY
        ELSE LET dx == block.right - block.left
                 dy == block.up - block.down
                 speed == Speed(dx, dy, cfg.downscale * cfg.downscale)
             IN  from_hsvf64(Angle(dx, dy), speed, speed)

(* generate_rgb_sequence: block_x is the outer loop, block_y the inner     *)
(* one, three bytes appended per block.                                    *)
BlockColour(block_x, block_y, grid, cfg) ==
    IF cfg.colouring = "DensityBW"
    THEN block_colour_density_bw(block_x, block_y, grid, cfg)
    ELSE block_colour_velocity_rgb(block_x, block_y, grid, cfg)

(* out after the blocks p, p+1, ... of the scan have been appended: block  *)
(* p of the scan is (p \div ny, p % ny).                                   *)
RECURSIVE Extend(_, _, _, _, _)
Extend(grid, cfg, nx, ny, p) ==
    IF p >= nx * ny
    THEN <<>>
    ELSE BlockColour(p \div ny, p % ny, grid, cfg) \o Extend(grid, cfg, nx, ny, p + 1)

generate_rgb_sequence(grid, cfg) ==
    Extend(grid, cfg, grid.width \div cfg.downscale, grid.height \div cfg.downscale, 0)

(* save_grid_as_image: what the encoder is given, the declared width and   *)
(* height and the data.                                                    *)
save_grid_as_image(grid, cfg) ==
    [width |-> grid.width \div cfg.downscale,
     height |-> grid.height \div cfg.downscale,
     data |-> generate_rgb_sequence(grid, cfg)]

-----------------------------------------------------------------------------
(* Values of the variables a specification does not use.                   *)

NoConfig ==
    [width |-> 0, height |-> 0, downscale |-> 1, iterations |-> 0, frameskip |-> 1,
     colouring |-> "DensityBW"]

NoImage == [width |-> 0, height |-> 0, data |-> <<>>]

NoCall == [op |-> "none", x |-> 0, y |-> 0, width |-> 0, height |-> 0, value |-> 0]

-----------------------------------------------------------------------------
(* The driver: Config, Source, update_sources and tick.                    *)

Config_new(width, height, downscale, iterations, frameskip, colouring) ==
    [width |-> width, height |-> height, downscale |-> downscale,
     iterations |-> iterations, frameskip |-> frameskip, colouring |-> colouring]

Source_new(x, y, width, height, density) ==
    [x |-> x, y |-> y, width |-> width, height |-> height, density |-> density]

(* The generator's outcomes for one pass over the sources: per source, one *)
(* 4-tuple per cell of its rectangle.                                      *)
RECURSIVE SourceDraws(_)
SourceDraws(srcs) ==
    IF srcs = <<>>
    THEN {<<>>}
    ELSE {<<d>> \o rest :
            d \in RegionDraws(Head(srcs).width, Head(srcs).height, Head(srcs).density),
            rest \in SourceDraws(Tail(srcs))}

(* Cells a pass over the sources fills by a draw that can go either way.   *)
RECURSIVE RandomCells(_)
RandomCells(srcs) ==
    IF srcs = <<>>
    THEN 0
    ELSE (IF Head(srcs).density \in {0, 100} THEN 0
          ELSE Head(srcs).width * Head(srcs).height)
         + RandomCells(Tail(srcs))

RECURSIVE update_sources(_, _, _)
update_sources(grid, srcs, draws) ==
    IF srcs = <<>>
    THEN [g |-> grid, ok |-> TRUE]
    ELSE LET source == Head(srcs)
             r == fill_region(grid, source.x, source.y, source.width, source.height,
                              Head(draws))
         IN  IF r.ok THEN update_sources(r.g, Tail(srcs), Tail(draws)) ELSE r

Tick_sources_last ==
    /\ pc = "run"
    /\ i < config.iterations
    /\ ndraws + RandomCells(sources) <= MaxDraws
    /\ \E draws \in SourceDraws(sources) :
         LET r == update_sources(propagate_grid(grid_a, grid_b), sources, draws)
         IN  IF r.ok
             THEN /\ grid_a' = r.g
                  /\ grid_b' = grid_a
                  /\ i' = i + 1
                  /\ image' = IF (i + 1) % config.frameskip = 0
                              THEN save_grid_as_image(r.g, config)
                              ELSE image
                  /\ ndraws' = ndraws + RandomCells(sources)
                  /\ pc' = pc
             ELSE /\ grid_a' = r.g
                  /\ pc' = "panicked"
                  /\ UNCHANGED <<grid_b, i, image, ndraws>>
    /\ UNCHANGED <<config, grid_0, sources, cell_value, result, call, written>>

(* tick i+1 of main's loop: the sources, the step, the swap, and the image *)
(* every frameskip ticks.  A failed assertion of set ends the run.         *)
Tick ==
    /\ pc = "run"
    /\ i < config.iterations
    /\ ndraws + RandomCells(sources) <= MaxDraws
    /\ \E draws \in SourceDraws(sources) :
         LET r == update_sources(grid_a, sources, draws)
             next == propagate_grid(r.g, grid_b)
         IN  IF r.ok
             THEN /\ grid_a' = next
                  /\ grid_b' = r.g
                  /\ i' = i + 1
                  /\ image' = IF (i + 1) % config.frameskip = 0
                              THEN save_grid_as_image(next, config)
                              ELSE image
                  /\ ndraws' = ndraws + RandomCells(sources)
                  /\ pc' = pc
             ELSE /\ grid_a' = r.g
                  /\ pc' = "panicked"
                  /\ UNCHANGED <<grid_b, i, image, ndraws>>
    /\ UNCHANGED <<config, grid_0, sources, cell_value, result, call, written>>

(* The grids main can build before the loop: a fill_region of the whole    *)
(* grid with probability 0 or 1, set_boundary_at_edge or not, and then up  *)
(* to MaxParticles single flags flipped by set.                            *)
Slots(w, h) == (0 .. w - 1) \X (0 .. h - 1) \X (0 .. 4)

RECURSIVE SlotSets(_, _, _)
SlotSets(w, h, n) ==
    IF n = 0
    THEN {{}}
    ELSE LET smaller == SlotSets(w, h, n - 1)
         IN  smaller \cup {t \cup {e} : t \in smaller, e \in Slots(w, h)}

FlipBit(v, k) == IF Bit(v, k) = 1 THEN v - 2 ^ k ELSE v + 2 ^ k

RECURSIVE Flip(_, _)
Flip(g, slots) ==
    IF slots = {}
    THEN g
    ELSE LET e == CHOOSE e \in slots : TRUE
         IN  Flip(set(g, e[1], e[2], FlipBit(get(g, e[1], e[2]), e[3])), slots \ {e})

Built(cfg, p, box, slots) ==
    LET filled == fill_region(Grid_new(cfg.width, cfg.height), 0, 0, cfg.width,
                              cfg.height,
                              [k \in 1 .. cfg.width * cfg.height |-> <<p \div 100, p \div 100, p \div 100, p \div 100>>]).g
        walled == IF box THEN set_boundary_at_edge(filled, cfg).g ELSE filled
    IN  Flip(walled, slots)

Init ==
    \E w \in 1 .. MaxW, h \in 1 .. MaxH, p \in {0, 100}, box \in BOOLEAN :
      \E slots \in SlotSets(w, h, MaxParticles) :
        /\ config = Config_new(w, h, 1, MaxTicks, 2, "DensityBW")
        /\ grid_a = Built(config, p, box, slots)
        /\ grid_b = Grid_new(w, h)
        /\ grid_0 = grid_a
        /\ sources = <<>>
        /\ i = 0
        /\ image = save_grid_as_image(grid_a, config)
        /\ ndraws = 0
        /\ pc = "run"
        /\ cell_value = 0
        /\ result = NoResult
        /\ call = NoCall
        /\ written = <<>>

Next == Tick

Spec == Init /\ [][Next]_vars

-----------------------------------------------------------------------------
(* Properties of the step, stated on the driver.  After a tick grid_b is   *)
(* the grid the step read (the swap leaves it there) and grid_a the grid   *)
(* it wrote.                                                               *)

Coords(g) == (0 .. g.width - 1) \X (0 .. g.height - 1)

Stored(g, x, y) == g.grid[y * g.width + x + 1]

(* Flag k of cell (x, y), nothing for a coordinate outside the grid.       *)
FlagAt(g, x, y, k) ==
    IF x >= 0 /\ x < g.width /\ y >= 0 /\ y < g.height THEN Bit(Stored(g, x, y), k) ELSE 0

Pulled(g, x, y) ==
    DOWN * FlagAt(g, x, y + 1, 1) + LEFT * FlagAt(g, x + 1, y, 0)
    + UP * FlagAt(g, x, y - 1, 3) + RIGHT * FlagAt(g, x - 1, y, 2)
    + BOUNDARY * FlagAt(g, x, y, 4)

(* Cell (x, y) holds v and every other cell is EMPTY.                      *)
OnlyCell(g, x, y, v) ==
    \A c \in Coords(g) : Stored(g, c[1], c[2]) = (IF c = <<x, y>> THEN v ELSE EMPTY)

RECURSIVE SumParticles(_, _)
SumParticles(cells, k) ==
    IF k = 0 THEN 0 ELSE Particles(cells[k]) + SumParticles(cells, k - 1)

TotalParticles(g) == SumParticles(g.grid, Len(g.grid))

(* C1: the step writes to every cell (x, y) the collision of the Down flag *)
(* of (x, y+1), the Left flag of (x+1, y), the Up flag of (x, y-1), the    *)
(* Right flag of (x-1, y) and the cell's own boundary flag, a neighbour    *)
(* outside the grid giving nothing; and a lone Right-moving particle with  *)
(* a cell to its right is, after the step, in that cell and nowhere else.  *)
C1_StepIsGather ==
    (pc = "run" /\ i >= 1) =>
        /\ \A c \in Coords(grid_b) :
             Stored(grid_a, c[1], c[2]) = resolve_collisions(Pulled(grid_b, c[1], c[2]))
        /\ \A c \in Coords(grid_b) :
             (c[1] + 1 < grid_b.width /\ OnlyCell(grid_b, c[1], c[2], RIGHT)) =>
                 OnlyCell(grid_a, c[1] + 1, c[2], RIGHT)

C1_Witness ==
    /\ i = 1
    /\ \E c \in Coords(grid_b) :
         /\ c[1] + 1 < grid_b.width
         /\ OnlyCell(grid_0, c[1], c[2], RIGHT)
         /\ OnlyCell(grid_a, c[1] + 1, c[2], RIGHT)

(* The closed box of set_boundary_at_edge, empty but for cell (x, y).      *)
BoxWith(cfg, x, y, v) ==
    set(set_boundary_at_edge(Grid_new(cfg.width, cfg.height), cfg).g, x, y, v)

(* C5: in the empty closed box of width W >= 3, a Right-moving particle at *)
(* (W-2, y), 0 < y < height-1, is after one step held only by the wall     *)
(* cell (W-1, y), as a Left flag, and after two steps is at (W-2, y)       *)
(* moving Left; at every step the grid holds exactly that one particle.    *)
C5_ReflectsAtRightWall ==
    \A y \in 1 .. config.height - 2 :
        (pc = "run" /\ config.width >= 3
         /\ grid_0 = BoxWith(config, config.width - 2, y, RIGHT)) =>
            /\ i = 1 => grid_a = BoxWith(config, config.width - 1, y, BOUNDARY + LEFT)
            /\ i = 2 => grid_a = BoxWith(config, config.width - 2, y, LEFT)
            /\ TotalParticles(grid_a) = 1
            /\ Len(grid_a.grid) = config.width * config.height

C5_Witness ==
    /\ i = 2
    /\ config.width >= 3
    /\ \E y \in 1 .. config.height - 2 :
         /\ grid_0 = BoxWith(config, config.width - 2, y, RIGHT)
         /\ grid_b = BoxWith(config, config.width - 1, y, BOUNDARY + LEFT)
         /\ grid_a = BoxWith(config, config.width - 2, y, LEFT)

NoBoundaryCell(g) == \A k \in 1 .. Len(g.grid) : Bit(g.grid[k], 4) = 0

(* Flags of edge cells that point at a coordinate outside the grid.        *)
RECURSIVE SumOutward(_, _)
SumOutward(g, cells) ==
    IF cells = {}
    THEN 0
    ELSE LET c == CHOOSE c \in cells : TRUE
             v == Stored(g, c[1], c[2])
         IN  (IF c[1] = g.width - 1 THEN Bit(v, 2) ELSE 0)
             + (IF c[1] = 0 THEN Bit(v, 0) ELSE 0)
             + (IF c[2] = g.height - 1 THEN Bit(v, 3) ELSE 0)
             + (IF c[2] = 0 THEN Bit(v, 1) ELSE 0)
             + SumOutward(g, cells \ {c})

Outward(g) == SumOutward(g, Coords(g))

(* C6 as stated: on a grid of fluid cells only, the step keeps the total   *)
(* number of particles (the unpainted edges act as walls).                 *)
C6_EdgesActAsWalls ==
    (pc = "run" /\ i >= 1 /\ NoBoundaryCell(grid_b)) =>
        TotalParticles(grid_a) = TotalParticles(grid_b)

(* C6 as amended: the sentinel's directional flags are clear, so nothing   *)
(* streams in from outside and nothing reflects at an unpainted edge: on a *)
(* grid of fluid cells only, the step removes exactly the particles of     *)
(* edge cells that move toward the outside, and keeps every other one.     *)
C6_OpenEdgesAbsorb ==
    (pc = "run" /\ i >= 1 /\ NoBoundaryCell(grid_b)) =>
        /\ TotalParticles(grid_a) = TotalParticles(grid_b) - Outward(grid_b)
        /\ NoBoundaryCell(grid_a)

C6_Witness ==
    /\ i = 1
    /\ NoBoundaryCell(grid_b)
    /\ grid_b.width >= 2
    /\ \E y \in 0 .. grid_b.height - 1 : OnlyCell(grid_b, grid_b.width - 1, y, RIGHT)
    /\ TotalParticles(grid_a) = 0

-----------------------------------------------------------------------------
(* SpecSrc: the driver with a Source.  The grid is MaxW x MaxH, empty,     *)
(* with or without the box of set_boundary_at_edge; the source list is     *)
(* empty or one source, its corner in the grid or one past it, its sides   *)
(* up to MaxSrcSide, its density 0, 1 or between (50 stands for every      *)
(* probability strictly between 0 and 1).                                  *)

Densities == {0, 50, 100}

SourceLists(w, h) ==
    {<<>>} \cup
    {<<Source_new(x, y, sw, sh, d)>> :
        x \in 0 .. w, y \in 0 .. h, sw \in 0 .. MaxSrcSide, sh \in 0 .. MaxSrcSide,
        d \in Densities}

InitSrc ==
    \E box \in BOOLEAN, srcs \in SourceLists(MaxW, MaxH) :
        /\ config = Config_new(MaxW, MaxH, 1, MaxTicks, 2, "DensityBW")
        /\ grid_a = Built(config, 0, box, {})
        /\ grid_b = Grid_new(MaxW, MaxH)
        /\ grid_0 = grid_a
        /\ sources = srcs
        /\ i = 0
        /\ image = save_grid_as_image(grid_a, config)
        /\ ndraws = 0
        /\ pc = "run"
        /\ cell_value = 0
        /\ result = NoResult
        /\ call = NoCall
        /\ written = <<>>

NextSrc == Tick

SpecSrc == InitSrc /\ [][NextSrc]_vars

(* Cell c lies in the rectangle of one of the sources.                     *)
Covered(c, srcs) ==
    \E k \in 1 .. Len(srcs) :
        /\ c[1] >= srcs[k].x /\ c[1] < srcs[k].x + srcs[k].width
        /\ c[2] >= srcs[k].y /\ c[2] < srcs[k].y + srcs[k].height

IsBoundary(g, c) == Bit(Stored(g, c[1], c[2]), 4) = 1

(* C7 as stated: a painted cell keeps its boundary flag in the current     *)
(* grid through every tick, whatever the sources.                          *)
C7_PaintedStaysBoundary ==
    pc = "run" =>
        \A c \in Coords(grid_0) : IsBoundary(grid_0, c) => IsBoundary(grid_a, c)

(* C7 as amended: a painted cell that no source rectangle covers keeps its *)
(* boundary flag in the current grid through every tick; a painted cell    *)
(* that a source covers is rewritten by fill_region at the first tick and  *)
(* is a fluid cell from then on.                                           *)
C7_UncoveredStaysBoundary ==
    pc = "run" =>
        \A c \in Coords(grid_0) :
            IsBoundary(grid_0, c) =>
                /\ ~Covered(c, sources) => IsBoundary(grid_a, c)
                /\ (Covered(c, sources) /\ i >= 1) => ~IsBoundary(grid_a, c)

C7_Witness ==
    /\ pc = "run"
    /\ i = 2
    /\ Len(sources) = 1
    /\ sources[1].density = 50
    /\ \E c \in Coords(grid_0) :
         IsBoundary(grid_0, c) /\ ~Covered(c, sources) /\ IsBoundary(grid_a, c)
    /\ \E c \in Coords(grid_0) :
         IsBoundary(grid_0, c) /\ Covered(c, sources) /\ ~IsBoundary(grid_a, c)

-----------------------------------------------------------------------------
(* SpecRender: save_grid_as_image on a built grid.  The grid is up to      *)
(* MaxBlocks x MaxBlocks blocks of side 1 or 2 (Downscales), filled EMPTY  *)
(* or FULL, with or without the box, and with at most one cell then set to *)
(* any of the 32 flag patterns; both colourings.                           *)

Colourings == {"DensityBW", "VelocityColour"}

Downscales == {1, 2}

Marks(w, h) == {<<>>} \cup {<<x, y, v>> : x \in 0 .. w - 1, y \in 0 .. h - 1, v \in 0 .. 31}

Marked(g, mark) == IF mark = <<>> THEN g ELSE set(g, mark[1], mark[2], mark[3])

InitRender ==
    \E nx \in 1 .. MaxBlocks, ny \in 1 .. MaxBlocks, d \in Downscales,
       colouring \in Colourings, p \in {0, 100}, box \in BOOLEAN :
      \E mark \in Marks(nx * d, ny * d) :
        /\ config = Config_new(nx * d, ny * d, d, 0, 1, colouring)
        /\ grid_a = Marked(Built(config, p, box, {}), mark)
        /\ grid_b = Grid_new(nx * d, ny * d)
        /\ grid_0 = grid_a
        /\ sources = <<>>
        /\ i = 0
        /\ image = NoImage
        /\ ndraws = 0
        /\ pc = "render"
        /\ cell_value = 0
        /\ result = NoResult
        /\ call = NoCall
        /\ written = <<>>

SaveGridAsImage ==
    /\ pc = "render"
    /\ image' = save_grid_as_image(grid_a, config)
    /\ pc' = "saved"
    /\ UNCHANGED <<config, grid_a, grid_b, grid_0, sources, i, ndraws, cell_value, result, call,
                   written>>

NextRender == SaveGridAsImage

SpecRender == InitRender /\ [][NextRender]_vars

(* The blocks of the image, and the three bytes of pixel number p (from 0) *)
(* of the data handed to the encoder.                                      *)
Blocks(g, cfg) ==
    (0 .. (g.width \div cfg.downscale) - 1) \X (0 .. (g.height \div cfg.downscale) - 1)

Pixel(data, p) == <<data[3 * p + 1], data[3 * p + 2], data[3 * p + 3]>>

(* The place of block (bx, by) in the data as generate_rgb_sequence emits  *)
(* it: bx is the outer loop.                                               *)
Emitted(g, cfg, bx, by) == bx * (g.height \div cfg.downscale) + by

CellsOf(cfg, bx, by) ==
    (cfg.downscale * bx .. cfg.downscale * bx + cfg.downscale - 1)
        \X (cfg.downscale * by .. cfg.downscale * by + cfg.downscale - 1)

RECURSIVE SumCells(_, _)
SumCells(g, cells) ==
    IF cells = {}
    THEN 0
    ELSE LET c == CHOOSE c \in cells : TRUE
         IN  Particles(Stored(g, c[1], c[2])) + SumCells(g, cells \ {c})

(* C8: under both colourings a block holding at least one boundary cell,   *)
(* wherever in the block, is emitted as (0, 0, 0) whatever its other cells *)
(* hold.                                                                   *)
C8_BoundaryBlockIsBlack ==
    pc = "saved" =>
        \A b \in Blocks(grid_a, config) :
            (\E c \in CellsOf(config, b[1], b[2]) : IsBoundary(grid_a, c)) =>
                Pixel(image.data, Emitted(grid_a, config, b[1], b[2])) = <<0, 0, 0>>

(* The 4x4 grid with boundary edges and a FULL interior, downscale 2: all  *)
(* four blocks are black.                                                  *)
C8_Witness ==
    /\ pc = "saved"
    /\ config.width = 4 /\ config.height = 4 /\ config.downscale = 2
    /\ \A c \in Coords(grid_a) :
         Stored(grid_a, c[1], c[2]) =
            (IF c[1] \in {0, 3} \/ c[2] \in {0, 3} THEN BOUNDARY ELSE FULL)
    /\ image.data = [k \in 1 .. 12 |-> 0]

(* C9 as stated: the data holds one triple per block, and the triple at    *)
(* pixel by * (width / downscale) + bx, its place in the rows of the image *)
(* declared to the encoder, is the colour of block (bx, by).               *)
C9_RowMajorForEncoder ==
    pc = "saved" =>
        /\ Len(image.data) = 3 * image.width * image.height
        /\ \A b \in Blocks(grid_a, config) :
             Pixel(image.data, b[2] * image.width + b[1])
                = BlockColour(b[1], b[2], grid_a, config)

(* C10 as stated: under DensityBW a block without boundary cell holding n  *)
(* particles is emitted as the grey round(63 n / b^2).                     *)
C10_DensityRounded ==
    (pc = "saved" /\ config.colouring = "DensityBW") =>
        \A b \in Blocks(grid_a, config) :
            (\A c \in CellsOf(config, b[1], b[2]) : ~IsBoundary(grid_a, c)) =>
                LET n == SumCells(grid_a, CellsOf(config, b[1], b[2]))
                    bb == config.downscale * config.downscale
                    v == (2 * 63 * n + bb) \div (2 * bb)
                IN  Pixel(image.data, Emitted(grid_a, config, b[1], b[2])) = <<v, v, v>>

(* C10 as amended: the grey is the quotient 63 n / b^2 of the integer      *)
(* division, rounded down.                                                 *)
C10_DensityTruncated ==
    (pc = "saved" /\ config.colouring = "DensityBW") =>
        \A b \in Blocks(grid_a, config) :
            (\A c \in CellsOf(config, b[1], b[2]) : ~IsBoundary(grid_a, c)) =>
                LET n == SumCells(grid_a, CellsOf(config, b[1], b[2]))
                    bb == config.downscale * config.downscale
                    v == (63 * n) \div bb
                IN  Pixel(image.data, Emitted(grid_a, config, b[1], b[2])) = <<v, v, v>>

C10_Witness ==
    /\ pc = "saved"
    /\ config.colouring = "DensityBW"
    /\ config.downscale = 2
    /\ \E b \in Blocks(grid_a, config) :
         /\ \A c \in CellsOf(config, b[1], b[2]) : ~IsBoundary(grid_a, c)
         /\ SumCells(grid_a, CellsOf(config, b[1], b[2])) = 1
         /\ Pixel(image.data, Emitted(grid_a, config, b[1], b[2])) = <<15, 15, 15>>

-----------------------------------------------------------------------------
(* SpecRenderAny: save_grid_as_image on grids whose sides need not be      *)
(* multiples of downscale (but hold at least one block, so the image is    *)
(* not empty).  Neither generate_rgb_sequence nor save_grid_as_image tests *)
(* divisibility: the block ranges are 0 .. width / downscale, the trailing *)
(* cells are in no block.                                                  *)

InitRenderAny ==
    \E w \in 1 .. MaxW, h \in 1 .. MaxH, d \in Downscales,
       colouring \in Colourings, p \in {0, 100}, box \in BOOLEAN :
      \E mark \in Marks(w, h) :
        /\ d <= w
        /\ d <= h
        /\ config = Config_new(w, h, d, 0, 1, colouring)
        /\ grid_a = Marked(Built(config, p, box, {}), mark)
        /\ grid_b = Grid_new(w, h)
        /\ grid_0 = grid_a
        /\ sources = <<>>
        /\ i = 0
        /\ image = NoImage
        /\ ndraws = 0
        /\ pc = "render"
        /\ cell_value = 0
        /\ result = NoResult
        /\ call = NoCall
        /\ written = <<>>

NextRenderAny == SaveGridAsImage

SpecRenderAny == InitRenderAny /\ [][NextRenderAny]_vars

(* C11 as stated: when downscale does not divide the grid's width or its   *)
(* height, rendering fails: no image is handed to the encoder.             *)
C11_IndivisibleIsFatal ==
    (config.width % config.downscale # 0 \/ config.height % config.downscale # 0) =>
        (pc # "saved" /\ image = NoImage)

-----------------------------------------------------------------------------
(* SpecGrid: Grid::new, then up to MaxSets direct calls of set and a call  *)
(* of get, at every coordinate from one cell outside the grid on each      *)
(* side.  grid_b holds the grid as it was before the last call.            *)

Sides == {1, 2}

SetValues == {RIGHT, BOUNDARY}

InitGrid ==
    \E w \in Sides, h \in Sides :
        /\ config = Config_new(w, h, 1, 0, 1, "DensityBW")
        /\ grid_a = Grid_new(w, h)
        /\ grid_b = Grid_new(w, h)
        /\ grid_0 = grid_a
        /\ sources = <<>>
        /\ i = 0
        /\ image = NoImage
        /\ ndraws = 0
        /\ pc = "unit"
        /\ cell_value = 0
        /\ result = NoResult
        /\ call = NoCall
        /\ written = [c \in (0 .. w - 1) \X (0 .. h - 1) |-> EMPTY]

SetCall ==
    /\ pc = "unit"
    /\ i < MaxSets
    /\ \E x \in -1 .. grid_a.width, y \in -1 .. grid_a.height, value \in SetValues :
         LET r == set_asserted(grid_a, x, y, value)
         IN  /\ grid_a' = r.g
             /\ grid_b' = grid_a
             /\ pc' = IF r.ok THEN "unit" ELSE "panicked"
             /\ written' = IF r.ok THEN [written EXCEPT ![<<x, y>>] = value] ELSE written
             /\ call' = [op |-> "set", x |-> x, y |-> y, width |-> 0, height |-> 0,
                         value |-> value]
    /\ i' = i + 1
    /\ UNCHANGED <<config, grid_0, sources, image, ndraws, cell_value, result>>

GetCall ==
    /\ pc = "unit"
    /\ \E x \in -1 .. grid_a.width, y \in -1 .. grid_a.height :
         /\ result' = get(grid_a, x, y)
         /\ call' = [op |-> "get", x |-> x, y |-> y, width |-> 0, height |-> 0, value |-> 0]
    /\ pc' = "read"
    /\ UNCHANGED <<config, grid_a, grid_b, grid_0, sources, i, image, ndraws, cell_value,
                   written>>

NextGrid == SetCall \/ GetCall

SpecGrid == InitGrid /\ [][NextGrid]_vars

(* The last call's coordinate lies in [0, width) x [0, height).            *)
CallInside ==
    call.x >= 0 /\ call.x < config.width /\ call.y >= 0 /\ call.y < config.height

(* C12: a set outside the grid fails its assertion and leaves every cell   *)
(* as it was; a set inside changes the cell (x, y) to the value and no     *)
(* other cell.                                                             *)
C12_SetAssertsRange ==
    call.op = "set" =>
        IF CallInside
        THEN /\ pc = "unit"
             /\ \A c \in Coords(grid_a) :
                  Stored(grid_a, c[1], c[2]) =
                     (IF c = <<call.x, call.y>> THEN call.value
                      ELSE Stored(grid_b, c[1], c[2]))
        ELSE /\ pc = "panicked"
             /\ grid_a = grid_b

(* set(width, 0, _) on a grid of two rows, after a set that succeeded: the *)
(* flat index width would be cell (0, 1).                                  *)
C12_Witness ==
    /\ call.op = "set"
    /\ pc = "panicked"
    /\ i = 2
    /\ config.height = 2
    /\ call.x = config.width /\ call.y = 0
    /\ grid_a = grid_b
    /\ \E c \in Coords(grid_a) : Stored(grid_a, c[1], c[2]) # EMPTY

(* C13: get never fails; outside the grid it returns the cell with the     *)
(* boundary flag and no directional flag, inside it the value last passed  *)
(* to set for that coordinate, EMPTY when there was none.                  *)
C13_GetIsTotal ==
    call.op = "get" =>
        /\ pc = "read"
        /\ IF CallInside
           THEN result = written[<<call.x, call.y>>]
           ELSE result = BOUNDARY /\ Bit(result, 4) = 1 /\ Particles(result) = 0

(* A read outside the grid whose flat index is that of a cell written      *)
(* before, and a read of a cell set twice.                                 *)
C13_Witness ==
    /\ call.op = "get"
    /\ pc = "read"
    /\ i = 2
    /\ config.height = 2
    /\ call.x = config.width /\ call.y = 0
    /\ written[<<0, 1>>] = RIGHT
    /\ result = BOUNDARY

-----------------------------------------------------------------------------
(* The order of a tick, on the driver with sources (SpecSrc).              *)

(* C14: after every tick the grid the step read (grid_b after the swap)    *)
(* holds the sources' fill in every covered cell, the current grid is the  *)
(* step applied to that source-filled grid, and an image saved in the tick *)
(* shows the current, post-step grid.                                      *)
C14_SourcesBeforeStep ==
    (pc = "run" /\ i >= 1) =>
        /\ \A c \in Coords(grid_b) :
             Covered(c, sources) =>
                /\ ~IsBoundary(grid_b, c)
                /\ sources[1].density = 100 => Stored(grid_b, c[1], c[2]) = FULL
                /\ sources[1].density = 0 => Stored(grid_b, c[1], c[2]) = EMPTY
        /\ \A c \in Coords(grid_a) :
             Stored(grid_a, c[1], c[2]) = resolve_collisions(Pulled(grid_b, c[1], c[2]))
        /\ i % config.frameskip = 0 =>
             /\ image.width = grid_a.width /\ image.height = grid_a.height
             /\ \A b \in Blocks(grid_a, config) :
                  Pixel(image.data, Emitted(grid_a, config, b[1], b[2])) =
                     (IF IsBoundary(grid_a, b) THEN <<0, 0, 0>>
                      ELSE LET v == 63 * Particles(Stored(grid_a, b[1], b[2]))
                           IN  <<v, v, v>>)

(* A 1x1 source of density 1 in the middle of the open, empty grid: after  *)
(* the second tick, which saves an image, the particles injected in it are *)
(* in the four neighbours, those of the first tick have left the grid, and *)
(* the middle cell is empty in the current grid and in the image.          *)
C14_Witness ==
    /\ pc = "run"
    /\ i = 2
    /\ sources = <<Source_new(1, 1, 1, 1, 100)>>
    /\ \A c \in Coords(grid_0) : Stored(grid_0, c[1], c[2]) = EMPTY
    /\ Stored(grid_b, 1, 1) = FULL
    /\ Stored(grid_a, 1, 1) = EMPTY
    /\ Stored(grid_a, 2, 1) = RIGHT
    /\ Stored(grid_a, 1, 2) = UP
    /\ Pixel(image.data, Emitted(grid_a, config, 1, 1)) = <<0, 0, 0>>
    /\ Pixel(image.data, Emitted(grid_a, config, 2, 1)) = <<63, 63, 63>>

-----------------------------------------------------------------------------
(* SpecFill: one direct call of fill_region on the MaxW x MaxH grid, empty *)
(* or full, boxed or not.  The rectangle starts anywhere from (0, 0) to    *)
(* (width, height) with sides up to MaxSrcSide + 1, so it may stick out of *)
(* the grid; with a probability strictly between 0 and 1 it has at most    *)
(* MaxSrcSide cells.  grid_b holds the grid as it was before the call.     *)

InitFill ==
    \E p \in {0, 100}, box \in BOOLEAN :
        /\ config = Config_new(MaxW, MaxH, 1, 0, 1, "DensityBW")
        /\ grid_a = Built(config, p, box, {})
        /\ grid_b = Grid_new(MaxW, MaxH)
        /\ grid_0 = grid_a
        /\ sources = <<>>
        /\ i = 0
        /\ image = NoImage
        /\ ndraws = 0
        /\ pc = "unit"
        /\ cell_value = 0
        /\ result = NoResult
        /\ call = NoCall
        /\ written = <<>>

FillRegionCall ==
    /\ pc = "unit"
    /\ \E x \in 0 .. grid_a.width, y \in 0 .. grid_a.height,
          width \in 0 .. MaxSrcSide + 1, height \in 0 .. MaxSrcSide + 1,
          probability \in Densities :
         /\ probability \in {0, 100} \/ width * height <= MaxSrcSide
         /\ \E draws \in RegionDraws(width, height, probability) :
              LET r == fill_region(grid_a, x, y, width, height, draws)
              IN  /\ grid_a' = r.g
                  /\ pc' = IF r.ok THEN "filled" ELSE "panicked"
         /\ call' = [op |-> "fill_region", x |-> x, y |-> y, width |-> width,
                     height |-> height, value |-> probability]
    /\ grid_b' = grid_a
    /\ UNCHANGED <<config, grid_0, sources, i, image, ndraws, cell_value, result, written>>

NextFill == FillRegionCall

SpecFill == InitFill /\ [][NextFill]_vars

(* Cell c lies in the rectangle of the last call.                          *)
InCallRect(c) ==
    /\ c[1] >= call.x /\ c[1] < call.x + call.width
    /\ c[2] >= call.y /\ c[2] < call.y + call.height

(* C15: a fill_region whose rectangle lies inside the grid returns, every  *)
(* cell of the rectangle then holds a value without boundary flag (FULL    *)
(* for p = 1, EMPTY for p = 0) whatever it held, and every other cell is   *)
(* as before; with 0 < p < 1 the draws of a cell can give each of the 16   *)
(* patterns of the four directional flags.                                 *)
C15_FillRegionOverwrites ==
    /\ \A v \in 0 .. 15 : \E d \in CellDraws(50) : RegionValue(d) = v
    /\ (/\ call.op = "fill_region"
        /\ call.x + call.width <= config.width
        /\ call.y + call.height <= config.height) =>
          /\ pc = "filled"
          /\ \A c \in Coords(grid_a) :
               IF InCallRect(c)
               THEN /\ Stored(grid_a, c[1], c[2]) \in 0 .. 15
                    /\ call.value = 100 => Stored(grid_a, c[1], c[2]) = FULL
                    /\ call.value = 0 => Stored(grid_a, c[1], c[2]) = EMPTY
               ELSE Stored(grid_a, c[1], c[2]) = Stored(grid_b, c[1], c[2])

(* A wall cell of the box refilled with 0 < p < 1: Up and Left drawn, the  *)
(* boundary flag gone.                                                     *)
C15_Witness ==
    /\ call.op = "fill_region"
    /\ pc = "filled"
    /\ call.value = 50
    /\ call.x = 0 /\ call.y = 1 /\ call.width = 1 /\ call.height = 1
    /\ Stored(grid_b, 0, 1) = BOUNDARY
    /\ Stored(grid_a, 0, 1) = UP + LEFT
    /\ Stored(grid_a, 0, 0) = BOUNDARY

-----------------------------------------------------------------------------
(* SpecBox: one direct call of set_boundary_at_edge, with the grid's own   *)
(* Config, on every grid main can build (Init).  grid_b holds the grid as  *)
(* it was before the call.                                                 *)

SetBoundaryAtEdgeCall ==
    /\ pc = "run"
    /\ LET r == set_boundary_at_edge(grid_a, config)
       IN  /\ grid_a' = r.g
           /\ pc' = IF r.ok THEN "boxed" ELSE "panicked"
    /\ grid_b' = grid_a
    /\ call' = [op |-> "set_boundary_at_edge", x |-> 0, y |-> 0, width |-> config.width,
                height |-> config.height, value |-> 0]
    /\ UNCHANGED <<config, grid_0, sources, i, image, ndraws, cell_value, result, written>>

NextBox == SetBoundaryAtEdgeCall

SpecBox == Init /\ [][NextBox]_vars

OnEdge(g, c) ==
    c[1] = 0 \/ c[1] = g.width - 1 \/ c[2] = 0 \/ c[2] = g.height - 1

(* C16: set_boundary_at_edge with the grid's own dimensions returns; every *)
(* cell of the first or last column or row then holds exactly BOUNDARY and *)
(* every other cell is as before.                                          *)
C16_EdgesBecomeBox ==
    call.op = "set_boundary_at_edge" =>
        /\ pc = "boxed"
        /\ \A c \in Coords(grid_a) :
             Stored(grid_a, c[1], c[2]) =
                (IF OnEdge(grid_a, c) THEN BOUNDARY ELSE Stored(grid_b, c[1], c[2]))

(* The full 3x3 grid with a flag of the middle cell flipped: the eight     *)
(* edge cells become BOUNDARY and the middle keeps its three particles.    *)
C16_Witness ==
    /\ call.op = "set_boundary_at_edge"
    /\ pc = "boxed"
    /\ config.width = 3 /\ config.height = 3
    /\ \A c \in Coords(grid_b) :
         Stored(grid_b, c[1], c[2]) = (IF c = <<1, 1>> THEN FULL - RIGHT ELSE FULL)
    /\ \A c \in Coords(grid_a) :
         Stored(grid_a, c[1], c[2]) = (IF c = <<1, 1>> THEN FULL - RIGHT ELSE BOUNDARY)

-----------------------------------------------------------------------------
(* SpecOrder: one call of propagate_grid with the iterations of its loops  *)
(* taken one at a time in any order, as workers sharing the two grids      *)
(* would take them.  The grid read is up to MaxW wide and 1 or 2 high,     *)
(* empty or full with at most one flag flipped; next_grid starts with      *)
(* every cell holding call.value.  written records the cells done.         *)

StaleValues == {EMPTY, FULL}

InitOrder ==
    \E w \in 1 .. MaxW, h \in Sides, p \in {0, 100}, stale \in StaleValues :
      \E slots \in SlotSets(w, h, 1) :
        /\ config = Config_new(w, h, 1, 0, 1, "DensityBW")
        /\ grid_a = Built(config, p, FALSE, slots)
        /\ grid_b = [Grid_new(w, h) EXCEPT !.grid = [k \in 1 .. w * h |-> stale]]
        /\ grid_0 = grid_a
        /\ sources = <<>>
        /\ i = 0
        /\ image = NoImage
        /\ ndraws = 0
        /\ pc = "stepping"
        /\ cell_value = 0
        /\ result = NoResult
        /\ call = [op |-> "propagate_grid", x |-> 0, y |-> 0, width |-> w, height |-> h,
                   value |-> stale]
        /\ written = <<>>

WriteCell ==
    /\ pc = "stepping"
    /\ \E c \in Coords(grid_a) \ DOMAIN written :
         /\ grid_b' = CellStep(grid_a, grid_b, c[1], c[2])
         /\ written' = [d \in DOMAIN written \cup {c} |->
                          IF d = c THEN get(grid_b', c[1], c[2]) ELSE written[d]]
    /\ pc' = IF DOMAIN written' = Coords(grid_a) THEN "stepped" ELSE "stepping"
    /\ UNCHANGED <<config, grid_a, grid_0, sources, i, image, ndraws, cell_value, result, call>>

NextOrder == WriteCell

SpecOrder == InitOrder /\ [][NextOrder]_vars

(* C18: in whatever order the cells are computed, the grid read stays as   *)
(* it was, a cell already computed holds what the sequential loop gives    *)
(* it, and a cell not yet computed holds what next_grid held; so when all  *)
(* are done next_grid is the result of the sequential propagate_grid.      *)
C18_OrderIndependent ==
    pc \in {"stepping", "stepped"} =>
        /\ grid_a = grid_0
        /\ \A c \in Coords(grid_b) :
             Stored(grid_b, c[1], c[2]) =
                (IF c \in DOMAIN written
                 THEN Stored(propagate_grid(grid_0, grid_b), c[1], c[2])
                 ELSE call.value)
        /\ pc = "stepped" => grid_b = propagate_grid(grid_0, grid_b)

(* The last cell of the sequential order computed first, alone, on the     *)
(* full 3x2 grid with a stale full next_grid.                              *)
C18_Witness ==
    /\ pc = "stepping"
    /\ config.width = 3 /\ config.height = 2
    /\ \A c \in Coords(grid_0) : Stored(grid_0, c[1], c[2]) = FULL
    /\ call.value = FULL
    /\ DOMAIN written = {<<2, 1>>}
    /\ Stored(grid_b, 2, 1) = RIGHT + UP
    /\ Stored(grid_b, 0, 0) = FULL

-----------------------------------------------------------------------------
(* The driver without sources (Spec) against a single step function.       *)

(* The step as a function of one grid: every cell is the collision of what *)
(* it pulls from its neighbours.                                           *)
Step(g) ==
    [g EXCEPT !.grid =
        [k \in 1 .. g.width * g.height |->
            resolve_collisions(Pulled(g, (k - 1) % g.width, (k - 1) \div g.width))]]

RECURSIVE StepN(_, _)
StepN(g, n) == IF n = 0 THEN g ELSE Step(StepN(g, n - 1))

(* C19: after n ticks the current buffer is the step function applied n    *)
(* times to the grid main built, and the other buffer is the grid of the   *)
(* tick before, as the step that read it left it; the current buffer owes  *)
(* nothing to what it held before it was written.                          *)
C19_DriverRefinesStep ==
    pc = "run" =>
        /\ grid_a = StepN(grid_0, i)
        /\ i >= 1 => grid_b = StepN(grid_0, i - 1)

(* A lone Right particle crossing a grid three cells wide: the buffer      *)
(* written by the second tick still held the initial grid, with the        *)
(* particle in column 0, and holds it only in column 2 afterwards.         *)
C19_Witness ==
    /\ pc = "run"
    /\ i = 2
    /\ config.width = 3
    /\ \E y \in 0 .. config.height - 1 :
         /\ OnlyCell(grid_0, 0, y, RIGHT)
         /\ OnlyCell(grid_b, 1, y, RIGHT)
         /\ OnlyCell(grid_a, 2, y, RIGHT)

-----------------------------------------------------------------------------
(* The velocity colouring (SpecRender) against the stated formula.         *)

(* Number of cells of the set with flag k.                                 *)
RECURSIVE SumFlag(_, _, _)
SumFlag(g, cells, k) ==
    IF cells = {}
    THEN 0
    ELSE LET c == CHOOSE c \in cells : TRUE
         IN  Bit(Stored(g, c[1], c[2]), k) + SumFlag(g, cells \ {c}, k)

(* The stated colour in the fixed point of the model: fluxes from the      *)
(* counts of the Right, Left, Up and Down flags, hue atan2(fx, fy), and    *)
(* each channel rounded to the nearest integer.                            *)
StatedVelocityColour(g, cfg, bx, by) ==
    LET cells == CellsOf(cfg, bx, by)
        dx == SumFlag(g, cells, 2) - SumFlag(g, cells, 0)
        dy == SumFlag(g, cells, 3) - SumFlag(g, cells, 1)
        speed == Speed(dx, dy, cfg.downscale * cfg.downscale)
        hue == Angle(dx, dy)
        chroma == (speed * speed) \div Scale
        h_prime == hue \div 60
        x == (chroma * (Scale - Abs((h_prime % (2 * Scale)) - Scale))) \div Scale
        rgb == IF h_prime < Scale THEN <<chroma, x, 0>>
               ELSE IF h_prime < 2 * Scale THEN <<x, chroma, 0>>
               ELSE IF h_prime < 3 * Scale THEN <<0, chroma, x>>
               ELSE IF h_prime < 4 * Scale THEN <<0, x, chroma>>
               ELSE IF h_prime < 5 * Scale THEN <<x, 0, chroma>>
               ELSE <<chroma, 0, x>>
        m == speed - chroma
    IN  [k \in 1 .. 3 |-> ((rgb[k] + m) * 255 + Scale \div 2) \div Scale]

(* C20 as stated, up to the precision of the fixed point: under the        *)
(* velocity colouring every channel of a block without boundary cell is    *)
(* within 2 of the stated colour.                                          *)
C20_VelocityAsStated ==
    (pc = "saved" /\ config.colouring = "VelocityColour") =>
        \A b \in Blocks(grid_a, config) :
            (\A c \in CellsOf(config, b[1], b[2]) : ~IsBoundary(grid_a, c)) =>
                \A k \in 1 .. 3 :
                    Abs(Pixel(image.data, Emitted(grid_a, config, b[1], b[2]))[k]
                        - StatedVelocityColour(grid_a, config, b[1], b[2])[k]) <= 2

-----------------------------------------------------------------------------
(* SpecClosed: the driver without sources on a closed box.  The grid has   *)
(* sides 3 or 4 (BoxSides); main's set-up fills it EMPTY or FULL, paints   *)
(* the four edges, then paints an interior wall cell or none (recorded in  *)
(* call) and flips up to two directional flags of interior fluid cells.    *)

BoxSides == {3, 4}

(* The subsets of S with at most n elements.                               *)
RECURSIVE ChoicesUpTo(_, _)
ChoicesUpTo(S, n) ==
    IF n = 0
    THEN {{}}
    ELSE LET smaller == ChoicesUpTo(S, n - 1)
         IN  smaller \cup {t \cup {e} : t \in smaller, e \in S}

(* The directional flags of the fluid cells strictly inside the edges.     *)
InteriorFlags(g) ==
    {e \in (1 .. g.width - 2) \X (1 .. g.height - 2) \X (0 .. 3) :
        BitAnd(get(g, e[1], e[2]), BOUNDARY) = 0}

InitClosed ==
    \E w \in BoxSides, h \in BoxSides, p \in {0, 100},
       wx \in 1 .. 2, wy \in 1 .. 2, ww \in 0 .. 1, wh \in 0 .. 1 :
      /\ wx + ww <= w - 1
      /\ wy + wh <= h - 1
      /\ config = Config_new(w, h, 1, MaxTicks, 2, "DensityBW")
      /\ LET walled == fill_boundary(Built(config, p, TRUE, {}), wx, wy, ww, wh).g
         IN  \E flags \in ChoicesUpTo(InteriorFlags(walled), 2) :
                grid_a = Flip(walled, flags)
      /\ grid_b = Grid_new(w, h)
      /\ grid_0 = grid_a
      /\ sources = <<>>
      /\ i = 0
      /\ image = save_grid_as_image(grid_a, config)
      /\ ndraws = 0
      /\ pc = "run"
      /\ cell_value = 0
      /\ result = NoResult
      /\ call = [op |-> "fill_boundary", x |-> wx, y |-> wy, width |-> ww, height |-> wh,
                 value |-> 0]
      /\ written = <<>>

NextClosed == Tick

SpecClosed == InitClosed /\ [][NextClosed]_vars

(* C21: in the closed box, without sources, the number of directional      *)
(* flags over all cells of the current grid, wall cells included, is after *)
(* every tick what it was in the grid main built.                          *)
C21_ClosedBoxConservesMass ==
    pc = "run" => TotalParticles(grid_a) = TotalParticles(grid_0)

(* Two ticks on the 4x4 box with an interior wall cell: particles are in   *)
(* flight inside an edge wall cell and inside the interior wall cell, and  *)
(* the count is the initial one.                                           *)
C21_Witness ==
    /\ pc = "run"
    /\ i >= 1
    /\ config.width = 4 /\ config.height = 4
    /\ call.width = 1 /\ call.height = 1
    /\ Particles(Stored(grid_a, call.x, call.y)) > 0
    /\ \E c \in Coords(grid_a) :
         OnEdge(grid_a, c) /\ Particles(Stored(grid_a, c[1], c[2])) > 0
    /\ TotalParticles(grid_a) = TotalParticles(grid_0)
    /\ TotalParticles(grid_0) >= 2

-----------------------------------------------------------------------------
(* The particle count across a step, on every grid of the driver (Spec):   *)
(* fluid and wall cells mixed, wall cells with or without flags.           *)

(* C22: the grid a step writes never holds more directional flags than the *)
(* grid it read, and holds fewer exactly when a cell of the grid read had  *)
(* a flag pointing at a coordinate outside the grid.                       *)
C22_StepNeverCreates ==
    (pc = "run" /\ i >= 1) =>
        /\ TotalParticles(grid_a) <= TotalParticles(grid_b)
        /\ (TotalParticles(grid_a) < TotalParticles(grid_b)) <=> (Outward(grid_b) > 0)

(* A boxed full grid whose edge wall cell carries one flag pointing        *)
(* outside: the step loses that flag and keeps the others.                 *)
C22_Witness ==
    /\ pc = "run"
    /\ i = 1
    /\ \E c \in Coords(grid_b) : OnEdge(grid_b, c) /\ IsBoundary(grid_b, c)
                                  /\ Particles(Stored(grid_b, c[1], c[2])) = 1
    /\ Outward(grid_b) = 1
    /\ TotalParticles(grid_b) > 1
    /\ TotalParticles(grid_a) = TotalParticles(grid_b) - 1

-----------------------------------------------------------------------------
(* SpecWall: the driver without sources on a grid of sides 3 or 4 cut by a *)
(* wall: fill_boundary over a full column or a full row (recorded in       *)
(* call).  The cells on one side of it (call.value 0: the lower            *)
(* coordinates, 1: the higher ones) are filled EMPTY or FULL, the edges    *)
(* are painted or not, and up to one directional flag of a fluid cell of   *)
(* that side is flipped; the other side starts empty.                      *)

(* The wall of the last fill_boundary is a column (else a row).            *)
WallIsColumn == call.width = 1

(* Cell c lies on the given side of the wall.                              *)
OnSide(c, side) ==
    IF WallIsColumn
    THEN (IF side = 0 THEN c[1] < call.x ELSE c[1] > call.x)
    ELSE (IF side = 0 THEN c[2] < call.y ELSE c[2] > call.y)

InitWall ==
    \E w \in BoxSides, h \in BoxSides, column \in BOOLEAN, side \in {0, 1},
       p \in {0, 100}, box \in BOOLEAN :
      \E k \in 0 .. (IF column THEN w ELSE h) - 1 :
        /\ config = Config_new(w, h, 1, MaxTicks, 2, "DensityBW")
        /\ call = [op |-> "fill_boundary",
                   x |-> IF column THEN k ELSE 0, y |-> IF column THEN 0 ELSE k,
                   width |-> IF column THEN 1 ELSE w, height |-> IF column THEN h ELSE 1,
                   value |-> side]
        /\ LET x_min == IF column /\ side = 1 THEN k + 1 ELSE 0
               y_min == IF ~column /\ side = 1 THEN k + 1 ELSE 0
               width == IF column THEN (IF side = 0 THEN k ELSE w - 1 - k) ELSE w
               height == IF column THEN h ELSE (IF side = 0 THEN k ELSE h - 1 - k)
               filled == fill_region(Grid_new(w, h), x_min, y_min, width, height,
                                     [n \in 1 .. width * height |->
                                        <<p \div 100, p \div 100, p \div 100, p \div 100>>]).g
               edged == IF box THEN set_boundary_at_edge(filled, config).g ELSE filled
               walled == fill_boundary(edged, call.x, call.y, call.width, call.height).g
               flags == {e \in (x_min .. x_min + width - 1) \X (y_min .. y_min + height - 1)
                                  \X (0 .. 3) :
                            BitAnd(get(walled, e[1], e[2]), BOUNDARY) = 0}
           IN  \E flipped \in ChoicesUpTo(flags, 1) : grid_a = Flip(walled, flipped)
        /\ grid_b = Grid_new(w, h)
        /\ grid_0 = grid_a
        /\ sources = <<>>
        /\ i = 0
        /\ image = save_grid_as_image(grid_a, config)
        /\ ndraws = 0
        /\ pc = "run"
        /\ cell_value = 0
        /\ result = NoResult
        /\ written = <<>>

NextWall == Tick

SpecWall == InitWall /\ [][NextWall]_vars

(* C23: with all particles starting on one side of a full column or row of *)
(* wall cells, no fluid cell on the other side holds a particle after any  *)
(* number of ticks.                                                        *)
C23_WallIsImpermeable ==
    pc = "run" =>
        \A c \in Coords(grid_a) :
            (OnSide(c, 1 - call.value) /\ ~IsBoundary(grid_a, c)) =>
                Particles(Stored(grid_a, c[1], c[2])) = 0

(* A column wall with fluid cells on both sides: after a tick a wall cell  *)
(* holds a particle it has turned back, and the far side is empty.         *)
C23_Witness ==
    /\ pc = "run"
    /\ i >= 1
    /\ WallIsColumn
    /\ call.value = 0
    /\ call.x >= 1 /\ call.x <= config.width - 2
    /\ \E y \in 0 .. config.height - 1 : Bit(Stored(grid_a, call.x, y), 0) = 1
    /\ \E c \in Coords(grid_a) : OnSide(c, 1) /\ ~IsBoundary(grid_a, c)
    /\ \A c \in Coords(grid_a) :
         OnSide(c, 1) => Particles(Stored(grid_a, c[1], c[2])) = 0

-----------------------------------------------------------------------------
(* The earlier snapshot's renderer (src/src/main.rs).  Its cells, Grid and *)
(* RGB8 are those above; it has no colouring policy.  The ranges of        *)
(* count_particles_in_block end at downscale * block + downscale - 1,      *)
(* exclusive: they hold downscale - 1 coordinates each.                    *)

None == [some |-> FALSE, value |-> 0]

Some(n) == [some |-> TRUE, value |-> n]

(* The cells count_particles_in_block visits, in loop order: cell_x        *)
(* outermost.                                                              *)
VisitedCells(block_x, block_y, downscale) ==
    [k \in 1 .. (downscale - 1) * (downscale - 1) |->
        <<downscale * block_x + ((k - 1) \div (downscale - 1)),
          downscale * block_y + ((k - 1) % (downscale - 1))>>]

(* The loops from the k-th visited cell on, with particles counted so far. *)
RECURSIVE CountFrom(_, _, _, _)
CountFrom(grid, cells, k, particles) ==
    IF k > Len(cells)
    THEN Some(particles)
    ELSE LET cell_in_block == get(grid, cells[k][1], cells[k][2])
         IN  IF BitAnd(cell_in_block, BOUNDARY) # 0
             THEN None
             ELSE CountFrom(grid, cells, k + 1,
                            particles + Particles(BitAnd(cell_in_block, FULL)))

count_particles_in_block(grid, block_x, block_y, downscale) ==
    CountFrom(grid, VisitedCells(block_x, block_y, downscale), 1, 0)

early_block_colour(grid, block_x, block_y, downscale) ==
    LET particles_in_block == count_particles_in_block(grid, block_x, block_y, downscale)
    IN  IF particles_in_block.some
        THEN LET val == AsU8((63 * particles_in_block.value) \div (downscale * downscale))
             IN  RGB8_new(val, val, val)
        ELSE RGB8_BOUNDARY

RECURSIVE EarlyExtend(_, _, _, _, _)
EarlyExtend(grid, downscale, nx, ny, p) ==
    IF p >= nx * ny
    THEN <<>>
    ELSE early_block_colour(grid, p \div ny, p % ny, downscale)
            \o EarlyExtend(grid, downscale, nx, ny, p + 1)

early_generate_rgb_sequence(grid, downscale) ==
    EarlyExtend(grid, downscale, grid.width \div downscale, grid.height \div downscale, 0)

early_save_grid_as_image(grid, downscale) ==
    [width |-> grid.width \div downscale,
     height |-> grid.height \div downscale,
     data |-> early_generate_rgb_sequence(grid, downscale)]

(* SpecEarly: the earlier save_grid_as_image on the grids of SpecRender.   *)
InitEarly == InitRender /\ config.colouring = "DensityBW"

EarlySaveGridAsImage ==
    /\ pc = "render"
    /\ image' = early_save_grid_as_image(grid_a, config.downscale)
    /\ pc' = "saved"
    /\ UNCHANGED <<config, grid_a, grid_b, grid_0, sources, i, ndraws, cell_value, result, call,
                   written>>

NextEarly == EarlySaveGridAsImage

SpecEarly == InitEarly /\ [][NextEarly]_vars

(* C24 as stated: for every block count_particles_in_block is None exactly *)
(* when one of the block's b x b cells has the boundary flag and otherwise *)
(* Some of the number of directional flags of all of them, and the earlier *)
(* renderer's buffer is the one of the final DensityBW policy.             *)
C24_EarlyCountsWholeBlock ==
    pc = "saved" =>
        /\ \A b \in Blocks(grid_a, config) :
             count_particles_in_block(grid_a, b[1], b[2], config.downscale) =
                (IF \E c \in CellsOf(config, b[1], b[2]) : IsBoundary(grid_a, c)
                 THEN None
                 ELSE Some(SumCells(grid_a, CellsOf(config, b[1], b[2]))))
        /\ image.data = generate_rgb_sequence(grid_a, config)

-----------------------------------------------------------------------------
(* SpecCell: resolve_collisions called on every u8.                        *)

InitCell ==
    /\ pc = "call"
    /\ cell_value \in U8
    /\ result = NoResult
    /\ call = NoCall
    /\ written = <<>>
    /\ config = NoConfig
    /\ grid_a = Grid_new(0, 0)
    /\ grid_b = Grid_new(0, 0)
    /\ grid_0 = Grid_new(0, 0)
    /\ sources = <<>>
    /\ i = 0
    /\ image = NoImage
    /\ ndraws = 0

ResolveCall ==
    /\ pc = "call"
    /\ result' = resolve_collisions(cell_value)
    /\ pc' = "returned"
    /\ UNCHANGED <<config, grid_a, grid_b, grid_0, sources, i, image, ndraws, cell_value, call,
                   written>>

(* A second call, on the value the first returned.                         *)
ResolveAgain ==
    /\ pc = "returned"
    /\ result' = resolve_collisions(result)
    /\ pc' = "returned twice"
    /\ UNCHANGED <<config, grid_a, grid_b, grid_0, sources, i, image, ndraws, cell_value, call,
                   written>>

NextCell == ResolveCall \/ ResolveAgain

SpecCell == InitCell /\ [][NextCell]_vars

(* C2: a fluid cell (boundary flag clear, the 16 patterns of the four      *)
(* directional flags) comes back as Left+Right when it is exactly Up+Down, *)
(* as Up+Down when it is exactly Left+Right, and unchanged otherwise.      *)
C2_CollisionTable ==
    (pc = "returned" /\ cell_value \in 0 .. 15) =>
        result = (IF cell_value = UP + DOWN THEN LEFT + RIGHT
                  ELSE IF cell_value = LEFT + RIGHT THEN UP + DOWN
                  ELSE cell_value)

C2_Witness == pc = "returned" /\ cell_value = UP + DOWN /\ result = LEFT + RIGHT

(* C3: a wall cell (boundary flag set) comes back with the boundary flag   *)
(* set and every directional flag reflected: Up iff Down was set, Down iff *)
(* Up, Right iff Left, Left iff Right.                                     *)
C3_BoundaryReflects ==
    (pc = "returned" /\ Bit(cell_value, 4) = 1) =>
        /\ Bit(result, 4) = 1
        /\ Bit(result, 3) = Bit(cell_value, 1)
        /\ Bit(result, 1) = Bit(cell_value, 3)
        /\ Bit(result, 2) = Bit(cell_value, 0)
        /\ Bit(result, 0) = Bit(cell_value, 2)

C3_Witness == pc = "returned" /\ cell_value = BOUNDARY + RIGHT /\ result = BOUNDARY + LEFT

(* C4: on the 16 fluid patterns the collision keeps the number of          *)
(* directional flags.                                                      *)
C4_CollisionConservesMass ==
    (pc = "returned" /\ cell_value \in 0 .. 15) =>
        Particles(result) = Particles(cell_value)

C4_Witness ==
    pc = "returned" /\ cell_value = LEFT + RIGHT /\ result # cell_value
    /\ Particles(result) = 2

(* C17: on the 32 values made of the five flags, resolve_collisions        *)
(* applied to its own result gives back the argument.                      *)
C17_CollisionIsInvolution ==
    (pc = "returned twice" /\ cell_value \in 0 .. 31) => result = cell_value

(* The head-on pair swapped and swapped back, seen at the second return.   *)
C17_Witness ==
    /\ pc = "returned twice"
    /\ cell_value = LEFT + RIGHT
    /\ result = LEFT + RIGHT
    /\ resolve_collisions(cell_value) = UP + DOWN

====
